---- MODULE Spec2Model ----
(***************************************************************************)
(* The order-intake server of the 3D-printing shop: the order schema       *)
(* (shared/schema.ts), the in-memory order store (server/storage.ts) and   *)
(* the HTTP routes with the estimator and the e-mail notification          *)
(* (server routes, src/unnamed/part_002), and the state of the client's     *)
(* order form (client/src/components/order-form.tsx).                      *)
(*                                                                         *)
(* JavaScript values are modelled as follows.  A string is a TLA+ string;  *)
(* the values undefined and null are the two reserved strings Undefined    *)
(* and Null, which no input uses as text.  A boolean is a BOOLEAN.  A Date *)
(* is the clock reading it was built from.  A number of the estimator is   *)
(* an exact integer count of hundredths (cents, centigrams); the last-ulp  *)
(* error of a floating-point sum is not represented.  An identifier is a   *)
(* tuple of characters, so that prefixes of identifiers can be formed.     *)
(***************************************************************************)
EXTENDS Integers, Sequences, FiniteSets, TLC

VARIABLES
    orders,     \* MemStorage.orders: the Map from identifier to Order
    now,        \* the reading of the system clock (new Date())
    reqs,       \* the HTTP requests: position in the handler, input, response
    last,       \* the latest direct call of the storage interface and its result
    form        \* the client's order form: its state, its mutations in flight

vars == <<orders, now, reqs, last, form>>

------------------------------------------------------------------------------
(* Bounds of the model. *)

MaxReqs == 2        \* HTTP requests in one behaviour
MaxCalls == 3       \* direct calls of the storage interface in one behaviour
MaxClock == 1       \* largest clock reading

Reqs == 1..MaxReqs
Times == 0..MaxClock

------------------------------------------------------------------------------
(* JavaScript values. *)

Undefined == "<undefined>"
Null == "<null>"

\* The truthiness test of `x || d` and `if (x && y)` on strings.
Truthy(x) == x # Undefined /\ x # Null /\ x # ""

\* An operator that yields its first operand whatever it is.
OrElseFirst(x, d) == x

\* x || d
OrElse(x, d) == IF Truthy(x) THEN x ELSE d

\* The same on a boolean operand.
OrElseBool(x, d) == IF x = TRUE THEN x ELSE d

TwoDigits(n) == IF n < 10 THEN "0" \o ToString(n) ELSE ToString(n)

\* Number.prototype.toString of the number c/100: the shortest decimal.
NumToString(c) ==
    LET q == c \div 100
        r == c % 100
    IN  IF r = 0 THEN ToString(q)
        ELSE IF r % 10 = 0 THEN ToString(q) \o "." \o ToString(r \div 10)
        ELSE ToString(q) \o "." \o TwoDigits(r)

\* The decimal with two places, as a client writes an amount ("5.00").
Fixed2(c) == ToString(c \div 100) \o "." \o TwoDigits(c % 100)

------------------------------------------------------------------------------
(* The estimator. *)

MB == 1048576

\* Math.floor(a / b + 1/2) for naturals: toFixed rounds the exact value of the
\* double to the nearest, and up when it lies halfway.
RoundDiv(a, b) == (2 * a + b) \div (2 * b)

\* An estimate without the floor of 5 grams.
EstimatedWeightNoFloor(size) ==
    IF size < MB
    THEN size * 20
    ELSE IF size < 5 * MB
    THEN 20 * MB + (size - MB) * 15
    ELSE 80 * MB + (size - 5 * MB) * 10

\* estimatedWeight, as the exact fraction EstimatedWeightNum(size) / MB grams.
EstimatedWeightNum(size) ==
    IF size < MB
    THEN (IF 5 * MB > size * 20 THEN 5 * MB ELSE size * 20)
    ELSE IF size < 5 * MB
    THEN 20 * MB + (size - MB) * 15
    ELSE 80 * MB + (size - 5 * MB) * 10

\* parseFloat((w * k / 100).toFixed(2)) in hundredths, for w = num / MB: the
\* nearest hundredth of the exact value, computed on the quotient and the
\* remainder of num so that no product leaves the 32-bit range.
Hundredths(num, k) ==
    (num \div MB) * k + RoundDiv((num % MB) * k, MB)

\* printTimeMinutes = Math.max(30, estimatedWeight * 1.5 + fileSizeMB * 20),
\* which is (3 * num + 40 * size) / (2 * MB), in whole minutes: both
\* Math.floor(minutes / 60) and Math.floor(minutes % 60) depend on the
\* floor of the minutes alone.
PrintTimeMinutes(size) ==
    LET num == EstimatedWeightNum(size)
        whole == 3 * (num \div (2 * MB)) + 40 * (size \div (2 * MB))
        rest == 3 * (num % (2 * MB)) + 40 * (size % (2 * MB))
        m == whole + rest \div (2 * MB)
    IN  IF m < 30 THEN 30 ELSE m

\* A format that prints the whole count of minutes after the hours.
formatPrintTimeAllMinutes(minutes) ==
    ToString(minutes \div 60) \o "h " \o ToString(minutes) \o "m"

formatPrintTime(minutes) ==
    ToString(minutes \div 60) \o "h " \o ToString(minutes % 60) \o "m"

\* An estimator that takes the base cost from the weight it returns.
analyze3DModelOfReturned(file) ==
    LET num == EstimatedWeightNum(file.size)
        weight == Hundredths(num, 100)
    IN  [weight |-> weight,
         printTime |-> formatPrintTime(PrintTimeMinutes(file.size)),
         baseCost |-> RoundDiv(weight * 25, 100)]

\* analyze3DModel(file): weight in centigrams, baseCost in cents.
analyze3DModel(file) ==
    LET num == EstimatedWeightNum(file.size)
    IN  [weight |-> Hundredths(num, 100),
         printTime |-> formatPrintTime(PrintTimeMinutes(file.size)),
         baseCost |-> Hundredths(num, 25)]

------------------------------------------------------------------------------
(* The order schema. *)

\* The columns of the orders table.
OrderFields ==
    {"id", "customerName", "customerPhone", "deliveryMethod", "streetAddress",
     "city", "state", "zipCode", "modelFileName", "modelWeight", "printTime",
     "baseCost", "supportRemoval", "supportCost", "totalCost", "status",
     "createdAt", "updatedAt"}

\* The keys insertOrderSchema keeps: the columns without id, createdAt, updatedAt.
InsertFields == OrderFields \ {"id", "createdAt", "updatedAt"}

\* z.string().min(n)
IsStringMin(x, n) == x # Undefined /\ x # Null /\ Len(x) >= n

\* A schema without the rule on the phone number.
SchemaAcceptsAnyPhone(data) ==
    /\ IsStringMin(data.customerName, 1)
    /\ data.deliveryMethod \in {"delivery", "meetup"}

\* The default of a column that a draft leaves out.
DefaultOf(f) ==
    IF f = "supportCost" THEN "0.00"
    ELSE IF f = "status" THEN "pending"
    ELSE Null

\* Whether insertOrderSchema.parse accepts the object (it throws otherwise).
\* Every other key is an optional string, and a form field is a string or absent.
SchemaAccepts(data) ==
    /\ IsStringMin(data.customerName, 1)
    /\ IsStringMin(data.customerPhone, 10)
    /\ data.deliveryMethod \in {"delivery", "meetup"}

\* insertOrderSchema.parse({...orderData, supportRemoval: orderData.supportRemoval === 'true'})
\* on an accepted object: the kept keys, with the defaults filled in.
insertOrderSchema(data) ==
    [f \in InsertFields |->
        IF f = "supportRemoval" THEN data.supportRemoval = "true"
        ELSE IF f = "supportCost" /\ data.supportCost = Undefined THEN "0.00"
        ELSE data[f]]

------------------------------------------------------------------------------
(* The order store. *)

\* The identifiers randomUUID can return: strings of one fixed length, here
\* three strings of two characters.
UUIDs == {<<"a", "b">>, <<"b", "a">>, <<"b", "b">>}

\* An identifier generator that can return a value again.
randomUUIDRepeats(store) == UUIDs

\* randomUUID(): a value that was not returned before (no identifier is ever
\* removed from the store, so these are the ones that are not keys of it).
randomUUID(store) == UUIDs \ DOMAIN store

\* The value undefined where an Order is expected.
NoOrder == [undefined |-> TRUE]

IsPrefix(p, s) == Len(p) <= Len(s) /\ SubSeq(s, 1, Len(p)) = p

\* A lookup that matches a key by its beginning.
getOrderByPrefix(store, id) ==
    LET hit == {k \in DOMAIN store : IsPrefix(id, k)}
    IN  IF hit = {} THEN NoOrder ELSE store[CHOOSE k \in hit : TRUE]

\* MemStorage.getOrder(id), this.orders.get(id): the record under exactly this
\* key, or undefined.
getOrder(store, id) == IF id \in DOMAIN store THEN store[id] ELSE NoOrder

\* NewOrder that stores the status of the draft when it has one.
NewOrderKeepsStatus(id, insertOrder, t) ==
    [id |-> id,
     customerName |-> insertOrder.customerName,
     customerPhone |-> insertOrder.customerPhone,
     deliveryMethod |-> insertOrder.deliveryMethod,
     streetAddress |-> OrElse(insertOrder.streetAddress, Null),
     city |-> OrElse(insertOrder.city, Null),
     state |-> OrElse(insertOrder.state, Null),
     zipCode |-> OrElse(insertOrder.zipCode, Null),
     modelFileName |-> OrElse(insertOrder.modelFileName, Null),
     modelWeight |-> OrElse(insertOrder.modelWeight, Null),
     printTime |-> OrElse(insertOrder.printTime, Null),
     baseCost |-> OrElse(insertOrder.baseCost, Null),
     supportRemoval |-> OrElseBool(insertOrder.supportRemoval, FALSE),
     supportCost |-> OrElse(insertOrder.supportCost, "0.00"),
     totalCost |-> OrElse(insertOrder.totalCost, Null),
     status |-> OrElse(insertOrder.status, "pending"),
     createdAt |-> t,
     updatedAt |-> t]

\* The Order that MemStorage.createOrder builds from a draft.
NewOrder(id, insertOrder, t) ==
    [id |-> id,
     customerName |-> insertOrder.customerName,
     customerPhone |-> insertOrder.customerPhone,
     deliveryMethod |-> insertOrder.deliveryMethod,
     streetAddress |-> OrElse(insertOrder.streetAddress, Null),
     city |-> OrElse(insertOrder.city, Null),
     state |-> OrElse(insertOrder.state, Null),
     zipCode |-> OrElse(insertOrder.zipCode, Null),
     modelFileName |-> OrElse(insertOrder.modelFileName, Null),
     modelWeight |-> OrElse(insertOrder.modelWeight, Null),
     printTime |-> OrElse(insertOrder.printTime, Null),
     baseCost |-> OrElse(insertOrder.baseCost, Null),
     supportRemoval |-> OrElseBool(insertOrder.supportRemoval, FALSE),
     supportCost |-> OrElse(insertOrder.supportCost, "0.00"),
     totalCost |-> OrElse(insertOrder.totalCost, Null),
     status |-> "pending",
     createdAt |-> t,
     updatedAt |-> t]

\* A set that drops every other entry of the Map.
MapSetAlone(store, key, order) == [k \in {key} |-> order]

\* this.orders.set(key, order)
MapSet(store, key, order) ==
    [k \in DOMAIN store \cup {key} |-> IF k = key THEN order ELSE store[k]]

\* The store after MemStorage.createOrder(insertOrder) that drew identifier id.
createOrder(store, id, insertOrder, t) ==
    MapSet(store, id, NewOrder(id, insertOrder, t))

\* A merge in which the fields of the existing record win over the patch.
MergeOrderKeepsExisting(existingOrder, updates, t) ==
    [f \in DOMAIN existingOrder \cup DOMAIN updates \cup {"updatedAt"} |->
        IF f = "updatedAt" THEN t
        ELSE IF f \in DOMAIN existingOrder THEN existingOrder[f]
        ELSE updates[f]]

\* { ...existingOrder, ...updates, updatedAt: new Date() }
MergeOrder(existingOrder, updates, t) ==
    [f \in DOMAIN existingOrder \cup DOMAIN updates \cup {"updatedAt"} |->
        IF f = "updatedAt" THEN t
        ELSE IF f \in DOMAIN updates THEN updates[f]
        ELSE existingOrder[f]]

\* The store after MemStorage.updateOrder(id, updates).
updateOrder(store, id, updates, t) ==
    IF id \notin DOMAIN store THEN store
    ELSE MapSet(store, id, MergeOrder(store[id], updates, t))

\* MemStorage.getAllOrders(): the values of the Map (as a set; their order is
\* the insertion order, which nothing reads).
getAllOrders(store) == {store[k] : k \in DOMAIN store}

------------------------------------------------------------------------------
(* The inputs. *)

\* The form as the client first shows it (defaultValues of the order form),
\* with the name and the phone number filled in; the keys the form does not
\* send are absent.
FormDefaults ==
    [customerName |-> "Ann Lee", customerPhone |-> "7325550100",
     deliveryMethod |-> "delivery", streetAddress |-> "",
     city |-> "Monroe Township", state |-> "NJ", zipCode |-> "",
     supportRemoval |-> "false", modelFileName |-> Undefined,
     modelWeight |-> Undefined, printTime |-> Undefined,
     baseCost |-> Undefined, supportCost |-> Undefined,
     totalCost |-> Undefined, status |-> Undefined]

\* What a request changes in the form: nothing, or one of these.
Variations ==
    {<<>>,
     [customerName |-> Undefined],
     [customerName |-> ""],
     [customerPhone |-> "555"],
     [deliveryMethod |-> "meetup"],
     [deliveryMethod |-> "pickup"],
     [streetAddress |-> "12 Elm St", zipCode |-> "08831"],
     [deliveryMethod |-> "meetup", streetAddress |-> Undefined,
      city |-> Undefined, state |-> Undefined, zipCode |-> Undefined],
     [modelWeight |-> "35", printTime |-> "1h 32m", baseCost |-> "8.75",
      totalCost |-> "1.00"],
     [modelWeight |-> "35", printTime |-> "1h 32m", baseCost |-> "8.75",
      supportRemoval |-> "true"],
     [baseCost |-> "8.75"],
     [supportRemoval |-> "true"],
     [status |-> "completed"]}

\* The multipart bodies (req.body): the form with one of the changes.
Payloads == {v @@ FormDefaults : v \in Variations}

\* The uploaded files (req.file), and its absence.
NoFile == [absent |-> TRUE]
UploadSizes == {300000, 2 * MB}
Files == {[originalname |-> "bracket.stl", size |-> s] : s \in UploadSizes}

\* The uploads of the analysis route: the sizes at every eighth of a
\* megabyte up to 6 MB, two sizes in between (the second weighs just under
\* 7.5 g), the sizes next to the two breakpoints, the smallest file and the
\* largest the upload filter lets through.
UploadLimit == 50 * MB
AnalyzedSizes ==
    {k * (MB \div 8) : k \in 1..48}
        \cup {1, 300000, 393000, MB - 1, MB + 1, 5 * MB - 1, 5 * MB + 1,
              UploadLimit}
AnalyzedFiles == {[originalname |-> "bracket.stl", size |-> s] : s \in AnalyzedSizes}

\* The identifiers a lookup can ask for: the identifiers and their proper
\* non-empty prefixes.
LookupIds ==
    UUIDs \cup UNION {{SubSeq(u, 1, n) : n \in 1..(Len(u) - 1)} : u \in UUIDs}

\* The drafts of a direct createOrder call: the parsed accepted bodies; of
\* those that change the estimate or the support flag, the one with both.
Drafts ==
    {insertOrderSchema(p) :
        p \in {q \in Payloads :
                  /\ SchemaAccepts(q)
                  /\ Truthy(q.baseCost) \/ q.supportRemoval = "true"
                        => Truthy(q.modelWeight) /\ q.supportRemoval = "true"}}

\* The partial records of a direct updateOrder call.
Patches ==
    {<<>>,
     [status |-> "confirmed"],
     [streetAddress |-> "9 Oak Ave", deliveryMethod |-> "delivery",
      updatedAt |-> 0],
     [id |-> <<"b", "b">>],
     [createdAt |-> MaxClock]}

------------------------------------------------------------------------------
(* POST /api/orders, up to the call of the store. *)

\* The flat fee of support removal, in cents.
SupportFee == 500

\* A reconciliation that runs the estimator whatever the body carries.
ReconcileAlwaysEstimates(orderData, modelFile) ==
    LET validatedOrder == insertOrderSchema(orderData)
    IN  IF modelFile = NoFile THEN validatedOrder
        ELSE LET analysis == analyze3DModel(modelFile)
                 baseCost == analysis.baseCost
                 supportCost == IF validatedOrder.supportRemoval THEN SupportFee ELSE 0
                 totalCost == baseCost + supportCost
             IN  [validatedOrder EXCEPT
                    !.modelFileName = modelFile.originalname,
                    !.modelWeight = NumToString(analysis.weight),
                    !.printTime = analysis.printTime,
                    !.baseCost = NumToString(analysis.baseCost),
                    !.supportCost = NumToString(supportCost),
                    !.totalCost = NumToString(totalCost)]

\* The draft the handler hands to storage.createOrder: the parsed body, and
\* with an uploaded file the file's name and either the client's analysis
\* or the estimator's.
Reconcile(orderData, modelFile) ==
    LET validatedOrder == insertOrderSchema(orderData)
    IN  IF modelFile = NoFile THEN validatedOrder
        ELSE IF /\ Truthy(orderData.modelWeight)
                /\ Truthy(orderData.printTime)
                /\ Truthy(orderData.baseCost)
        THEN [validatedOrder EXCEPT
                !.modelFileName = modelFile.originalname,
                !.modelWeight = orderData.modelWeight,
                !.printTime = orderData.printTime,
                !.baseCost = orderData.baseCost,
                !.supportCost =
                    OrElse(orderData.supportCost,
                           IF validatedOrder.supportRemoval THEN "5.00" ELSE "0.00"),
                !.totalCost = orderData.totalCost]
        ELSE LET analysis == analyze3DModel(modelFile)
                 baseCost == analysis.baseCost
                 supportCost == IF validatedOrder.supportRemoval THEN SupportFee ELSE 0
                 totalCost == baseCost + supportCost
             IN  [validatedOrder EXCEPT
                    !.modelFileName = modelFile.originalname,
                    !.modelWeight = NumToString(analysis.weight),
                    !.printTime = analysis.printTime,
                    !.baseCost = NumToString(analysis.baseCost),
                    !.supportCost = NumToString(supportCost),
                    !.totalCost = NumToString(totalCost)]

------------------------------------------------------------------------------
(* The client's order form. *)

MaxSelects == 3     \* file selections in one behaviour
MaxSubmits == 2     \* presses of the submit button in one behaviour

\* The values of the form's fields when it is first shown and after a reset.
ClientDefaults ==
    [customerName |-> "", customerPhone |-> "", deliveryMethod |-> "delivery",
     streetAddress |-> "", city |-> "Monroe Township", state |-> "NJ",
     zipCode |-> "", supportRemoval |-> FALSE]

\* What a customer enters: a delivery with its address, or a meetup.
ClientEntries ==
    {[customerName |-> "Ann Lee", customerPhone |-> "7325550100",
      streetAddress |-> "12 Elm St", zipCode |-> "08831"],
     [customerName |-> "Ann Lee", customerPhone |-> "7325550100",
      deliveryMethod |-> "meetup"]}

\* Whether orderFormSchema accepts the values: the rules on the name, the
\* phone and the method, and the refinement on the address of a delivery.
orderFormSchema(data) ==
    /\ IsStringMin(data.customerName, 1)
    /\ IsStringMin(data.customerPhone, 10)
    /\ data.deliveryMethod \in {"delivery", "meetup"}
    /\ data.deliveryMethod = "delivery" =>
            Truthy(data.streetAddress) /\ Truthy(data.zipCode)

\* The value null of modelAnalysis (that of selectedFile is NoFile).
NoAnalysis == [absent |-> TRUE]

\* The form as the component first renders it: the two useState values, the
\* field values, the toast on show, and the calls of the two mutations with
\* the position of each ("pending" until its response has arrived).
FormInit ==
    [selectedFile |-> NoFile, modelAnalysis |-> NoAnalysis,
     values |-> ClientDefaults, toast |-> "",
     analyses |-> <<>>, submits |-> <<>>]

------------------------------------------------------------------------------
(* The state. *)

\* A request that has not arrived.
IdleReq == [pc |-> "idle"]

\* No direct call yet; n counts the direct calls.
NoCall == [op |-> "none", n |-> 0]

Init ==
    /\ orders = <<>>
    /\ now = 0
    /\ reqs = [r \in Reqs |-> IdleReq]
    /\ last = NoCall
    /\ form = FormInit

\* The clock advances; it never goes back.
Tick ==
    /\ now < MaxClock
    /\ now' = now + 1
    /\ UNCHANGED <<form, orders, reqs, last>>

\* The absence of a body (of a route parameter: the empty tuple).
NoBody == [absent |-> TRUE]

\* A request taken up by its handler: the route, the body, the uploaded file
\* and the route parameter; created is the order storage.createOrder
\* returned to the handler, sent counts the notifications it has attempted,
\* storeFailed tells that its call of the store was rejected.
Arrived(route, input, file, param) ==
    [pc |-> "run", route |-> route, input |-> input, file |-> file,
     param |-> param, created |-> NoOrder, sent |-> 0, emailFailed |-> FALSE,
     storeFailed |-> FALSE]

\* res.status(code).json(body) by the handler that took the request up,
\* before it called the store or the notification.
Answer(r, route, input, file, param, code, body) ==
    reqs' = [reqs EXCEPT ![r] =
                [pc |-> "done", route |-> route, input |-> input, file |-> file,
                 param |-> param, created |-> NoOrder, sent |-> 0,
                 emailFailed |-> FALSE, storeFailed |-> FALSE,
                 status |-> code, body |-> body]]

------------------------------------------------------------------------------
(* The routes. *)

\* POST /api/orders, from the arrival of the request to the first point
\* where the handler waits for something outside the process: the body is
\* parsed; a rejected body is answered 400 by the catch clause; an accepted
\* one is reconciled and stored (createOrder runs to its end when called),
\* and sendOrderEmail is called and runs up to resend.emails.send.
PostOrders(r, orderData, modelFile) ==
    /\ reqs[r].pc = "idle"
    /\ IF ~SchemaAccepts(orderData)
       THEN /\ Answer(r, "orders", orderData, modelFile, <<>>, 400,
                      [message |-> "ZodError"])
            /\ UNCHANGED <<form, orders, now, last>>
       ELSE \E id \in randomUUID(orders) :
            LET validatedOrder == Reconcile(orderData, modelFile)
                order == NewOrder(id, validatedOrder, now)
            IN  /\ orders' = createOrder(orders, id, validatedOrder, now)
                /\ reqs' = [reqs EXCEPT ![r] =
                              [Arrived("orders", orderData, modelFile, <<>>) EXCEPT
                                 !.pc = "email", !.created = order, !.sent = 1]]
                /\ UNCHANGED <<form, now, last>>

\* EmailSettled without the inner try: a failed notification reaches the
\* outer catch clause.
EmailSettledPropagates(r, delivered) ==
    /\ reqs[r].pc = "email"
    /\ reqs' = [reqs EXCEPT ![r] =
                  [pc |-> "done", route |-> @.route, input |-> @.input,
                   file |-> @.file, param |-> @.param,
                   created |-> @.created, sent |-> @.sent,
                   emailFailed |-> ~delivered, storeFailed |-> FALSE,
                   status |-> IF delivered THEN 200 ELSE 400,
                   body |-> IF delivered THEN @.created
                            ELSE [message |-> "mail error"]]]
    /\ UNCHANGED <<form, orders, now, last>>

\* A handler that attempts a failed notification a second time.
EmailSettledRetries(r, delivered) ==
    /\ reqs[r].pc = "email"
    /\ IF delivered \/ reqs[r].sent >= 2
       THEN reqs' = [reqs EXCEPT ![r] =
                  [pc |-> "done", route |-> @.route, input |-> @.input,
                   file |-> @.file, param |-> @.param,
                   created |-> @.created, sent |-> @.sent,
                   emailFailed |-> ~delivered, storeFailed |-> FALSE,
                   status |-> 200, body |-> @.created]]
       ELSE reqs' = [reqs EXCEPT ![r].sent = @ + 1]
    /\ UNCHANGED <<form, orders, now, last>>

\* The notification is over, sent or failed: a failure is caught and logged,
\* and either way the handler answers with the order createOrder returned.
EmailSettled(r, delivered) ==
    /\ reqs[r].pc = "email"
    /\ reqs' = [reqs EXCEPT ![r] =
                  [pc |-> "done", route |-> @.route, input |-> @.input,
                   file |-> @.file, param |-> @.param,
                   created |-> @.created, sent |-> @.sent,
                   emailFailed |-> ~delivered, storeFailed |-> FALSE,
                   status |-> 200, body |-> @.created]]
    /\ UNCHANGED <<form, orders, now, last>>

\* GET /api/orders/:id
GetOrderRoute(r, id) ==
    /\ reqs[r].pc = "idle"
    /\ LET order == getOrder(orders, id)
       IN  IF order = NoOrder
           THEN Answer(r, "lookup", NoBody, NoFile, id, 404,
                       [message |-> "Order not found"])
           ELSE Answer(r, "lookup", NoBody, NoFile, id, 200, order)
    /\ UNCHANGED <<form, orders, now, last>>

\* An analysis route that keeps the estimate of an upload in the store.
AnalyzeModelPersists(r, file) ==
    /\ reqs[r].pc = "idle"
    /\ IF file = NoFile
       THEN /\ Answer(r, "analyze", NoBody, file, <<>>, 400,
                      [message |-> "No file uploaded"])
            /\ orders' = orders
       ELSE /\ Answer(r, "analyze", NoBody, file, <<>>, 200, analyze3DModel(file))
            /\ orders' = MapSet(orders, <<"a">>, analyze3DModel(file))
    /\ UNCHANGED <<form, now, last>>

\* POST /api/analyze-model
AnalyzeModel(r, file) ==
    /\ reqs[r].pc = "idle"
    /\ IF file = NoFile
       THEN Answer(r, "analyze", NoBody, file, <<>>, 400,
                   [message |-> "No file uploaded"])
       ELSE Answer(r, "analyze", NoBody, file, <<>>, 200, analyze3DModel(file))
    /\ UNCHANGED <<form, orders, now, last>>

------------------------------------------------------------------------------
(* The routes over a store whose calls can be rejected (IStorage returns     *)
(* promises; the in-memory store never rejects one).                         *)

\* POST /api/orders with an accepted body when storage.createOrder is
\* rejected: the outer catch clause answers.
PostOrdersStoreFails(r, orderData, modelFile) ==
    /\ reqs[r].pc = "idle"
    /\ SchemaAccepts(orderData)
    /\ reqs' = [reqs EXCEPT ![r] =
                  [pc |-> "done", route |-> "orders", input |-> orderData,
                   file |-> modelFile, param |-> <<>>, created |-> NoOrder,
                   sent |-> 0, emailFailed |-> FALSE, storeFailed |-> TRUE,
                   status |-> 400, body |-> [message |-> "store error"]]]
    /\ UNCHANGED <<form, orders, now, last>>

\* GET /api/orders/:id when storage.getOrder is rejected.
GetOrderStoreFails(r, id) ==
    /\ reqs[r].pc = "idle"
    /\ reqs' = [reqs EXCEPT ![r] =
                  [pc |-> "done", route |-> "lookup", input |-> NoBody,
                   file |-> NoFile, param |-> id, created |-> NoOrder,
                   sent |-> 0, emailFailed |-> FALSE, storeFailed |-> TRUE,
                   status |-> 500, body |-> [message |-> "store error"]]]
    /\ UNCHANGED <<form, orders, now, last>>

------------------------------------------------------------------------------
(* Direct calls of the storage interface (IStorage). *)

\* storage.createOrder(draft)
StoreCreate(draft) ==
    /\ last.n < MaxCalls
    /\ \E id \in randomUUID(orders) :
         /\ orders' = createOrder(orders, id, draft, now)
         /\ last' = [n |-> last.n + 1, op |-> "createOrder", id |-> id, arg |-> draft,
                     result |-> NewOrder(id, draft, now)]
    /\ UNCHANGED <<form, now, reqs>>

\* storage.updateOrder(id, updates)
StoreUpdate(id, updates) ==
    /\ last.n < MaxCalls
    /\ orders' = updateOrder(orders, id, updates, now)
    /\ last' = [n |-> last.n + 1, op |-> "updateOrder", id |-> id, arg |-> updates,
                result |-> IF id \in DOMAIN orders
                           THEN MergeOrder(orders[id], updates, now)
                           ELSE NoOrder]
    /\ UNCHANGED <<form, now, reqs>>

\* storage.getOrder(id)
StoreGet(id) ==
    /\ last.n < MaxCalls
    /\ last' = [n |-> last.n + 1, op |-> "getOrder", id |-> id, arg |-> <<>>,
                result |-> getOrder(orders, id)]
    /\ UNCHANGED <<form, orders, now, reqs>>

\* storage.getAllOrders()
StoreGetAll ==
    /\ last.n < MaxCalls
    /\ last' = [n |-> last.n + 1, op |-> "getAllOrders", id |-> <<>>, arg |-> <<>>,
                result |-> getAllOrders(orders)]
    /\ UNCHANGED <<form, orders, now, reqs>>

------------------------------------------------------------------------------
(* The handlers of the client's order form.  The callbacks given to         *)
(* useMutation run for every call of mutate, whichever call was the latest. *)

\* The customer fills the fields in.
FillIn(entry) ==
    /\ form.values = ClientDefaults
    /\ form' = [form EXCEPT !.values = entry @@ ClientDefaults]
    /\ UNCHANGED <<orders, now, reqs, last>>

\* handleFileSelect(file)
handleFileSelect(file) ==
    /\ Len(form.analyses) < MaxSelects
    /\ form' = [form EXCEPT
                  !.selectedFile = file,
                  !.modelAnalysis = NoAnalysis,
                  !.analyses = Append(@, [file |-> file, pc |-> "pending"])]
    /\ UNCHANGED <<orders, now, reqs, last>>

\* analyzeModelMutation.onSuccess(data), with data the server's answer to
\* the i-th analysis request.
AnalyzeOnSuccess(i) ==
    /\ form.analyses[i].pc = "pending"
    /\ form' = [form EXCEPT
                  !.analyses[i].pc = "done",
                  !.modelAnalysis = analyze3DModel(form.analyses[i].file),
                  !.toast = "Model analyzed successfully"]
    /\ UNCHANGED <<orders, now, reqs, last>>

\* analyzeModelMutation.onError: the i-th analysis request failed.
AnalyzeOnError(i) ==
    /\ form.analyses[i].pc = "pending"
    /\ form' = [form EXCEPT
                  !.analyses[i].pc = "done",
                  !.toast = "Analysis failed"]
    /\ UNCHANGED <<orders, now, reqs, last>>

\* form.handleSubmit(onSubmit): onSubmit runs when the values pass
\* orderFormSchema; it sends the order when a file is selected and an
\* analysis is on show.  Each sent order is kept with the file it carries
\* and the analysis that was on show.
onSubmit ==
    /\ Len(form.submits) < MaxSubmits
    /\ orderFormSchema(form.values)
    /\ IF form.selectedFile = NoFile \/ form.modelAnalysis = NoAnalysis
       THEN form' = [form EXCEPT !.toast = "3D Model Required"]
       ELSE form' = [form EXCEPT
                       !.submits = Append(@, [modelFile |-> form.selectedFile,
                                              shown |-> form.modelAnalysis,
                                              pc |-> "pending"])]
    /\ UNCHANGED <<orders, now, reqs, last>>

\* submitOrderMutation.onSuccess(order)
SubmitOnSuccess(j) ==
    /\ form.submits[j].pc = "pending"
    /\ form' = [form EXCEPT
                  !.submits[j].pc = "done",
                  !.toast = "Order submitted successfully!",
                  !.values = ClientDefaults,
                  !.selectedFile = NoFile,
                  !.modelAnalysis = NoAnalysis]
    /\ UNCHANGED <<orders, now, reqs, last>>

\* submitOrderMutation.onError
SubmitOnError(j) ==
    /\ form.submits[j].pc = "pending"
    /\ form' = [form EXCEPT
                  !.submits[j].pc = "done",
                  !.toast = "Order submission failed"]
    /\ UNCHANGED <<orders, now, reqs, last>>

------------------------------------------------------------------------------
(* The specifications. *)

\* Order submissions with bodies from P and uploads from F.
Orders(P, F) ==
    \/ \E r \in Reqs, orderData \in P, modelFile \in F :
         PostOrders(r, orderData, modelFile)
    \/ \E r \in Reqs, delivered \in BOOLEAN : EmailSettled(r, delivered)

\* The server: the three routes over the in-memory store, and the clock.
Next ==
    \/ Tick
    \/ Orders(Payloads, Files \cup {NoFile})
    \/ \E r \in Reqs, id \in LookupIds : GetOrderRoute(r, id)
    \/ \E r \in Reqs, file \in Files \cup {NoFile} : AnalyzeModel(r, file)

Spec == Init /\ [][Next]_vars

\* The fields in which a body differs from the form's defaults.
Changes(p) == {f \in DOMAIN FormDefaults : p[f] # FormDefaults[f]}

\* The bodies that change the name, the phone or the method only.
ContactPayloads ==
    {p \in Payloads :
        Changes(p) \subseteq {"customerName", "customerPhone", "deliveryMethod"}}

\* The bodies that change the estimate, the amounts or the support flag only.
PricingPayloads ==
    {p \in Payloads :
        Changes(p) \subseteq {"modelWeight", "printTime", "baseCost",
                              "supportCost", "totalCost", "supportRemoval"}}

\* Order submissions that differ in the contact fields, without an upload.
ValidationNext ==
    \/ Tick
    \/ Orders(ContactPayloads, {NoFile})

ValidationSpec == Init /\ [][ValidationNext]_vars

\* Order submissions that differ in the estimate and the upload.
PricingNext == Orders(PricingPayloads, Files \cup {NoFile})

PricingSpec == Init /\ [][PricingNext]_vars

\* Order submissions that differ in the estimate, each with an upload.
ReconcileNext == Orders(PricingPayloads, Files)

ReconcileSpec == Init /\ [][ReconcileNext]_vars

\* Submissions of the form's defaults with and without an upload, and lookups.
LookupNext ==
    \/ Tick
    \/ Orders({FormDefaults}, Files \cup {NoFile})
    \/ \E r \in Reqs, id \in LookupIds : GetOrderRoute(r, id)

LookupSpec == Init /\ [][LookupNext]_vars

\* The same over a store whose calls can be rejected.
FaultNext ==
    \/ LookupNext
    \/ \E r \in Reqs, orderData \in ContactPayloads :
         PostOrdersStoreFails(r, orderData, NoFile)
    \/ \E r \in Reqs, id \in LookupIds : GetOrderStoreFails(r, id)

FaultSpec == Init /\ [][FaultNext]_vars

\* The store under direct calls of its interface.
StoreNext ==
    \/ Tick
    \/ \E draft \in Drafts : StoreCreate(draft)
    \/ \E id \in UUIDs, updates \in Patches : StoreUpdate(id, updates)
    \/ \E id \in LookupIds : StoreGet(id)
    \/ StoreGetAll

StoreSpec == Init /\ [][StoreNext]_vars

\* Order submissions interleaved with direct updates of the store, by the
\* patches that name the status or the identifier.
IdPatches == {u \in Patches : DOMAIN u \in {{"status"}, {"id"}}}

UpdateNext ==
    \/ Orders({FormDefaults}, {NoFile})
    \/ \E id \in UUIDs, updates \in IdPatches : StoreUpdate(id, updates)

UpdateSpec == Init /\ [][UpdateNext]_vars

\* Order submissions that differ in the contact fields, over a store whose
\* createOrder can be rejected.
SubmissionNext ==
    \/ Orders(ContactPayloads, {NoFile})
    \/ \E r \in Reqs, orderData \in ContactPayloads :
         PostOrdersStoreFails(r, orderData, NoFile)

SubmissionSpec == Init /\ [][SubmissionNext]_vars

\* The bodies that change the method, the address or the status only.
AddressFields == {"streetAddress", "city", "state", "zipCode"}
AddressPayloads ==
    {p \in Payloads :
        Changes(p) \subseteq AddressFields \cup {"deliveryMethod", "status"}}

\* Order submissions that differ in the method, the address and the status,
\* and direct creates.
DefaultsNext ==
    \/ Orders(AddressPayloads, {NoFile})
    \/ \E draft \in Drafts : StoreCreate(draft)

DefaultsSpec == Init /\ [][DefaultsNext]_vars

\* Analysis requests among submissions of the form's defaults and lookups.
AnalyzeNext ==
    \/ Orders({FormDefaults}, Files \cup {NoFile})
    \/ \E r \in Reqs, id \in UUIDs : GetOrderRoute(r, id)
    \/ \E r \in Reqs, file \in Files \cup {NoFile} : AnalyzeModel(r, file)

AnalyzeSpec == Init /\ [][AnalyzeNext]_vars

\* The store under direct calls of its interface with the form's defaults as
\* the draft, among lookups and analysis requests.
ReadsNext ==
    \/ \E r \in Reqs, id \in UUIDs : GetOrderRoute(r, id)
    \/ \E r \in Reqs, file \in Files \cup {NoFile} : AnalyzeModel(r, file)
    \/ StoreCreate(insertOrderSchema(FormDefaults))
    \/ \E id \in UUIDs, updates \in IdPatches : StoreUpdate(id, updates)
    \/ \E id \in UUIDs : StoreGet(id)
    \/ StoreGetAll

ReadsSpec == Init /\ [][ReadsNext]_vars

\* The order form under its customer and the answers of the server.
FormNext ==
    \/ \E entry \in ClientEntries : FillIn(entry)
    \/ \E file \in Files : handleFileSelect(file)
    \/ \E i \in 1..Len(form.analyses) : AnalyzeOnSuccess(i)
    \/ \E i \in 1..Len(form.analyses) : AnalyzeOnError(i)
    \/ onSubmit
    \/ \E j \in 1..Len(form.submits) : SubmitOnSuccess(j)
    \/ \E j \in 1..Len(form.submits) : SubmitOnError(j)

FormSpec == Init /\ [][FormNext]_vars

\* The analysis route alone, over the uploads of every size.
EstimatorNext ==
    \E r \in Reqs, file \in AnalyzedFiles \cup {NoFile} : AnalyzeModel(r, file)

EstimatorSpec == Init /\ [][EstimatorNext]_vars

------------------------------------------------------------------------------
(* Reading the stored amounts. *)

\* The value of a text that is no amount.
NaN == 0 - 1

\* The amounts that occur: the estimator's base costs of the uploads, the
\* amounts the clients write, and each with the fee added.
Amounts ==
    LET base == {analyze3DModel(f).baseCost : f \in Files} \cup {0, 100, 875}
    IN  base \cup {c + SupportFee : c \in base}

\* Number(s) of a column of type decimal: the amount in cents, NaN for null
\* and for a text that is no amount.
Number(s) ==
    LET hit == {c \in Amounts : s = NumToString(c) \/ s = Fixed2(c)}
    IN  IF hit = {} THEN NaN ELSE CHOOSE c \in hit : TRUE

\* The requests that are order submissions, taken up by the handler.
Submissions == {r \in Reqs : reqs[r].pc # "idle" /\ reqs[r].route = "orders"}

\* The orders that submissions stored, as createOrder returned them.
Submitted == {reqs[r].created : r \in {x \in Submissions : reqs[x].created # NoOrder}}

\* A body that insertOrderSchema must reject for its name, phone or method.
BadContact(data) ==
    \/ data.customerName \in {Undefined, ""}
    \/ data.customerPhone = Undefined
    \/ Len(data.customerPhone) < 10
    \/ data.deliveryMethod \notin {"delivery", "meetup"}

------------------------------------------------------------------------------
(* The claims. *)

\* C1 (as stated): every order submission with deliveryMethod "delivery" and
\* an empty or missing streetAddress is answered 400 and stores no order,
\* and a submission with deliveryMethod "meetup" and a valid name and phone
\* is answered 200 with its order stored.
C1_DeliveryRequiresAddress ==
    \A r \in Submissions :
        LET q == reqs[r]
        IN  /\ (q.input.deliveryMethod = "delivery" /\ ~Truthy(q.input.streetAddress))
                => (q.pc = "done" /\ q.status = 400 /\ q.created = NoOrder)
            /\ (q.input.deliveryMethod = "meetup" /\ ~BadContact(q.input)
                    /\ q.pc = "done")
                => (q.status = 200 /\ q.created # NoOrder)

\* C2 (as stated): every order stored by an order submission with a base
\* cost has totalCost = baseCost + 5.00 with support removal and
\* totalCost = baseCost without.
C2_TotalCostLaw ==
    \A o \in Submitted :
        Number(o.baseCost) # NaN =>
            Number(o.totalCost) =
                Number(o.baseCost) + (IF o.supportRemoval THEN SupportFee ELSE 0)

\* C3: an order submission whose notification failed is answered 200 with
\* the order createOrder returned, and that order is in the store as it was
\* created; no submission that attempted the notification is answered with
\* an error.
C3_NotificationFailureNonFatal ==
    \A r \in Submissions :
        LET q == reqs[r]
        IN  (q.pc = "done" /\ q.sent > 0) =>
                /\ q.status = 200
                /\ q.created # NoOrder
                /\ q.body = q.created
                /\ getOrder(orders, q.created.id) = q.created

\* A submission whose notification failed has been answered.
C3_Witness ==
    \E r \in Submissions : reqs[r].pc = "done" /\ reqs[r].emailFailed

\* The columns of a draft that hold text.
TextFields == InsertFields \ {"supportRemoval"}

\* C4 (as stated): after createOrder(draft) returned an order, getOrder of
\* its identifier returns that order, in which every field the draft
\* supplies has the draft's value and every other field its default.
C4_RoundTripAsStated ==
    last.op = "createOrder" =>
        /\ getOrder(orders, last.id) = last.result
        /\ last.result.supportRemoval = last.arg.supportRemoval
        /\ \A f \in TextFields :
             last.result[f] =
                 IF last.arg[f] # Undefined THEN last.arg[f] ELSE DefaultOf(f)

\* C4 (amended): after createOrder(draft) returned an order, getOrder of its
\* identifier returns that order; its status is "pending", every other text
\* field that the draft supplies with a non-empty value has that value, and
\* every field the draft leaves out or supplies empty has its default.
C4_RoundTrip ==
    last.op = "createOrder" =>
        /\ getOrder(orders, last.id) = last.result
        /\ last.result.id = last.id
        /\ last.result.supportRemoval = last.arg.supportRemoval
        /\ last.result.status = "pending"
        /\ \A f \in TextFields \ {"status"} :
             last.result[f] =
                 IF Truthy(last.arg[f]) THEN last.arg[f] ELSE DefaultOf(f)

\* createOrder has just returned for a draft with an empty street address
\* or with a status of its own.
C4_Witness ==
    /\ last.op = "createOrder"
    /\ last.arg.status = "completed" \/ last.arg.streetAddress = ""

\* The submissions for which storage.createOrder has returned.
Made == {r \in Submissions : reqs[r].created # NoOrder}

\* C5: the identifiers of the orders that submissions created are pairwise
\* distinct, each is a key of the store, and the store holds as many orders
\* as creates have returned, whatever updates ran in between.
C5_UniqueIdentifiers ==
    /\ \A r1 \in Made, r2 \in Made :
         r1 # r2 => reqs[r1].created.id # reqs[r2].created.id
    /\ \A r \in Made : reqs[r].created.id \in DOMAIN orders
    /\ Cardinality(DOMAIN orders) = Cardinality(Made)

\* Two submissions have created their orders, one still waits for its
\* notification, and an update of a stored order ran.
C5_Witness ==
    /\ Cardinality(Made) = 2
    /\ \E r \in Made : reqs[r].pc = "email"
    /\ last.op = "updateOrder" /\ last.result # NoOrder

\* C6 (as stated): every stored record has the identifier it is stored
\* under, after any creates and updates.
C6_IdentifierImmutable ==
    \A k \in DOMAIN orders : orders[k].id = k

\* C7 (as stated): every stored order has updatedAt >= createdAt, and the
\* order createOrder returns has createdAt = updatedAt.
C7_Timestamps ==
    /\ \A k \in DOMAIN orders : orders[k].updatedAt >= orders[k].createdAt
    /\ last.op = "createOrder" => last.result.createdAt = last.result.updatedAt

\* C8: a submission whose name is missing or empty, whose phone has fewer
\* than 10 characters or whose method is neither delivery nor meetup is
\* answered 4xx with a message, created no order and attempted no
\* notification; the store holds the orders of the other submissions only.
C8_RejectionHasNoEffect ==
    /\ \A r \in Submissions :
         LET q == reqs[r]
         IN  BadContact(q.input) =>
                /\ q.pc = "done"
                /\ q.status \in 400..499
                /\ DOMAIN q.body = {"message"} /\ q.body.message # ""
                /\ q.created = NoOrder
                /\ q.sent = 0
    /\ DOMAIN orders = {o.id : o \in Submitted}

\* A submission with a short phone number has been answered while the store
\* holds an order.
C8_Witness ==
    /\ DOMAIN orders # {}
    /\ \E r \in Submissions :
         reqs[r].pc = "done" /\ reqs[r].input.customerPhone = "555"

\* C9 (as stated): a request whose call of the store was rejected is
\* answered 5xx.
C9_StoreFailureIsServerFault ==
    \A r \in Reqs :
        (reqs[r].pc = "done" /\ reqs[r].storeFailed) => reqs[r].status \in 500..599

\* C10: a lookup leaves the store as it is; for an identifier that is a key
\* of the store it answers 200 with the order under that key, and for any
\* other identifier, a proper prefix of a key included, 404 with the
\* message "Order not found".
C10_Lookup ==
    [][\A r \in Reqs :
         (reqs[r].pc = "idle" /\ reqs'[r].pc = "done" /\ reqs'[r].route = "lookup") =>
            /\ orders' = orders
            /\ IF reqs'[r].param \in DOMAIN orders
               THEN /\ reqs'[r].status = 200
                    /\ reqs'[r].body = orders[reqs'[r].param]
               ELSE /\ reqs'[r].status = 404
                    /\ reqs'[r].body = [message |-> "Order not found"]]_vars

\* A lookup of a proper prefix of a stored identifier was answered 404.
C10_Witness ==
    \E r \in Reqs :
        /\ reqs[r].pc = "done" /\ reqs[r].route = "lookup"
        /\ reqs[r].status = 404
        /\ \E k \in DOMAIN orders : IsPrefix(reqs[r].param, k) /\ reqs[r].param # k

\* C11: updateOrder(id, patch) on a stored id returns the record it stores
\* under id, in which every field the patch names has the patch's value and
\* every other field its previous value, except updatedAt, which is the time
\* of the call; every other order is unchanged and no key is added.  On an id
\* that is not stored it returns not-found and leaves the store unchanged.
C11_UpdateMergeAndFrame ==
    [][(last'.n = last.n + 1 /\ last'.op = "updateOrder") =>
         LET id == last'.id
             patch == last'.arg
             merged == last'.result
         IN  IF id \in DOMAIN orders
             THEN /\ DOMAIN orders' = DOMAIN orders
                  /\ orders'[id] = merged
                  /\ \A k \in DOMAIN orders \ {id} : orders'[k] = orders[k]
                  /\ DOMAIN merged = DOMAIN orders[id] \cup DOMAIN patch
                  /\ merged.updatedAt = now
                  /\ \A f \in DOMAIN patch \ {"updatedAt"} : merged[f] = patch[f]
                  /\ \A f \in DOMAIN orders[id] \ (DOMAIN patch \cup {"updatedAt"}) :
                       merged[f] = orders[id][f]
             ELSE /\ merged = NoOrder
                  /\ orders' = orders]_vars

\* An update with a patch that names fields has returned the merged record
\* while the store holds another order, after the clock advanced.
C11_Witness ==
    /\ last.op = "updateOrder"
    /\ last.result # NoOrder
    /\ "streetAddress" \in DOMAIN last.arg
    /\ Cardinality(DOMAIN orders) >= 2
    /\ now > 0

\* The analysis requests that were answered with an estimate.
Analyzed ==
    {r \in Reqs : reqs[r].pc = "done" /\ reqs[r].route = "analyze"
                    /\ reqs[r].status = 200}

\* The weight model of a file of the given size in bytes, in grams times MB:
\* max(5, s*20) below 1 MB, 20 + (s-1)*15 below 5 MB, 80 + (s-5)*10 from
\* 5 MB on, for s the size in MB.
WeightLaw(size) ==
    IF size < MB
    THEN (IF size * 20 >= 5 * MB THEN size * 20 ELSE 5 * MB)
    ELSE IF size < 5 * MB
    THEN 20 * MB + 15 * size - 15 * MB
    ELSE 80 * MB + 10 * size - 50 * MB

\* c hundredths is exactly k hundredths of num / MB.
IsExactly(c, num, k) ==
    LET d == c - (num \div MB) * k
    IN  d \in 0..k /\ d * MB = (num % MB) * k

\* c hundredths is k hundredths of num / MB rounded to the nearest hundredth.
IsRounded(c, num, k) ==
    LET d == c - (num \div MB) * k
        e == d * MB - (num % MB) * k
    IN  d \in 0..k /\ 2 * e <= MB /\ 2 * e > 0 - MB

\* C12 (as stated): the weight the estimator returns equals the weight model
\* of the file's size.
C12_WeightAsStated ==
    \A r \in Analyzed :
        IsExactly(reqs[r].body.weight, WeightLaw(reqs[r].file.size), 100)

\* C12 (amended): the weight the estimator returns is the weight model of the
\* file's size rounded to two decimal places.
C12_Weight ==
    \A r \in Analyzed :
        IsRounded(reqs[r].body.weight, WeightLaw(reqs[r].file.size), 100)

\* Estimates were returned for a file under the floor of 5 grams and for a
\* file whose weight has more than two decimal places.
C12_Witness ==
    /\ \E r \in Analyzed : reqs[r].file.size = 1
    /\ \E r \in Analyzed :
         ~IsExactly(reqs[r].body.weight, WeightLaw(reqs[r].file.size), 100)

\* A quarter of c hundredths, rounded to the nearest hundredth (half up).
QuarterRounded(c) == RoundDiv(c * 25, 100)

\* C13 (as stated): the base cost the estimator returns is the weight it
\* returns times 0.25, rounded to two decimal places.
C13_BaseCostAsStated ==
    \A r \in Analyzed :
        reqs[r].body.baseCost = QuarterRounded(reqs[r].body.weight)

\* C13 (amended): the base cost the estimator returns is the weight model of
\* the file's size, before it is rounded, times 0.25 and rounded to two
\* decimal places; it is within one cent of the returned weight times 0.25
\* rounded.
C13_BaseCost ==
    \A r \in Analyzed :
        LET cost == reqs[r].body.baseCost
            near == QuarterRounded(reqs[r].body.weight)
        IN  /\ IsRounded(cost, WeightLaw(reqs[r].file.size), 25)
            /\ cost \in (near - 1)..(near + 1)

\* An estimate was returned whose base cost is not the rounded quarter of
\* its weight.
C13_Witness ==
    \E r \in Analyzed :
        reqs[r].body.baseCost # QuarterRounded(reqs[r].body.weight)

\* The submissions with an uploaded file that stored an order.
MadeWithFile == {r \in Made : reqs[r].file # NoFile}

\* Whether a body carries the client's weight, print time and base cost.
CarriesEstimate(data) ==
    data.modelWeight \notin {Undefined, ""}
        /\ data.printTime \notin {Undefined, ""}
        /\ data.baseCost \notin {Undefined, ""}

\* C14: an order stored by a submission with an uploaded file holds the
\* client's weight, print time and base cost when the body carries all
\* three non-empty; otherwise it holds the estimator's weight, print time and
\* base cost for the file's size, a support cost of 5.00 with support removal
\* and of 0 without, and totalCost = baseCost + supportCost.
C14_EstimateReconciliation ==
    \A r \in MadeWithFile :
        LET data == reqs[r].input
            order == reqs[r].created
            analysis == analyze3DModel(reqs[r].file)
        IN  /\ getOrder(orders, order.id) = order
            /\ IF CarriesEstimate(data)
               THEN /\ order.modelWeight = data.modelWeight
                    /\ order.printTime = data.printTime
                    /\ order.baseCost = data.baseCost
               ELSE /\ Number(order.baseCost) = analysis.baseCost
                    /\ order.modelWeight = NumToString(analysis.weight)
                    /\ order.printTime = analysis.printTime
                    /\ Number(order.supportCost) =
                         (IF data.supportRemoval = "true" THEN 500 ELSE 0)
                    /\ Number(order.totalCost) =
                         Number(order.baseCost) + Number(order.supportCost)

\* One submission with a file stored the client's estimate, and another,
\* which carried a base cost only or asked for support removal, stored the
\* estimator's.
C14_Witness ==
    /\ \E r \in MadeWithFile : CarriesEstimate(reqs[r].input)
    /\ \E r \in MadeWithFile :
         /\ ~CarriesEstimate(reqs[r].input)
         /\ reqs[r].input.baseCost = "8.75" \/ reqs[r].input.supportRemoval = "true"

\* C15: every order createOrder returns, to a direct caller or to an order
\* submission, has status "pending" whatever the draft or the body holds, and
\* so has every stored order; each of streetAddress, city, state and zipCode
\* that the draft or the body does not supply is null in it.
C15_CreationDefaults ==
    /\ \A r \in Made :
         /\ reqs[r].created.status = "pending"
         /\ \A f \in {"streetAddress", "city", "state", "zipCode"} :
              reqs[r].input[f] = Undefined => reqs[r].created[f] = Null
    /\ last.op = "createOrder" =>
         /\ last.result.status = "pending"
         /\ \A f \in {"streetAddress", "city", "state", "zipCode"} :
              last.arg[f] = Undefined => last.result[f] = Null
    /\ \A k \in DOMAIN orders : orders[k].status = "pending"

\* A submission with a status of its own stored an order, and createOrder
\* returned for a meetup draft without any address field.
C15_Witness ==
    /\ \E r \in Made : reqs[r].input.status = "completed"
    /\ last.op = "createOrder"
    /\ last.arg.deliveryMethod = "meetup"
    /\ \A f \in {"streetAddress", "city", "state", "zipCode"} :
         last.arg[f] = Undefined

\* C16 (as stated): every order stored by an order submission has a support
\* cost of 5.00 when its supportRemoval is true and of 0 when it is false.
C16_SupportCostFlatFee ==
    \A o \in Submitted :
        Number(o.supportCost) = (IF o.supportRemoval THEN 500 ELSE 0)

\* C17: a step in which an analysis request is answered leaves the store and
\* every other request as they are and attempts no notification; without a
\* file the answer is 400, with a file it is 200 with the estimator's weight,
\* print time and base cost for that file.
C17_AnalysisHasNoSideEffect ==
    [][\A r \in Reqs :
         (reqs[r].pc = "idle" /\ reqs'[r].pc = "done"
                /\ reqs'[r].route = "analyze") =>
            /\ orders' = orders
            /\ \A q \in Reqs \ {r} : reqs'[q] = reqs[q]
            /\ reqs'[r].sent = 0 /\ reqs'[r].created = NoOrder
            /\ IF reqs'[r].file = NoFile
               THEN reqs'[r].status = 400
               ELSE /\ reqs'[r].status = 200
                    /\ DOMAIN reqs'[r].body = {"weight", "printTime", "baseCost"}
                    /\ reqs'[r].body = analyze3DModel(reqs'[r].file)]_vars

\* An analysis of an upload was answered while a submission that stored its
\* order waits for its notification.
C17_Witness ==
    /\ \E r \in Analyzed : reqs[r].file # NoFile
    /\ \E q \in Made : reqs[q].pc = "email"
    /\ DOMAIN orders # {}

\* C18: every step of an order submission is one of three.  Its body is
\* rejected, or its create is: it is answered 400, nothing is stored and no
\* notification is attempted.  Or its body is valid and its create returns:
\* the order is stored, the notification is attempted for the first time and
\* no answer is sent yet.  Or its notification has finished, sent or failed:
\* the answer is sent, and neither the store nor the count of attempts, which
\* is one, changes.
C18_SubmissionOrder ==
    [][\A r \in Reqs :
         LET a == reqs[r]
             b == reqs'[r]
         IN  (b # a /\ b.route = "orders") =>
                \/ /\ a.pc = "idle" /\ b.pc = "done"
                   /\ BadContact(b.input) \/ b.storeFailed
                   /\ b.status = 400
                   /\ b.created = NoOrder /\ b.sent = 0
                   /\ orders' = orders
                \/ /\ a.pc = "idle" /\ b.pc = "email"
                   /\ ~BadContact(b.input)
                   /\ b.created # NoOrder
                   /\ b.created.id \notin DOMAIN orders
                   /\ b.created.id \in DOMAIN orders'
                   /\ orders'[b.created.id] = b.created
                   /\ b.sent = 1
                   /\ "status" \notin DOMAIN b
                \/ /\ a.pc = "email" /\ b.pc = "done"
                   /\ b.created = a.created
                   /\ b.sent = 1 /\ a.sent = 1
                   /\ b.status = 200
                   /\ orders' = orders]_vars

\* A submission was answered after its notification failed, and another was
\* answered without a notification, its body or its create rejected.
C18_Witness ==
    /\ \E r \in Made : reqs[r].pc = "done" /\ reqs[r].emailFailed /\ reqs[r].sent = 1
    /\ \E r \in Submissions :
         reqs[r].pc = "done" /\ reqs[r].created = NoOrder /\ reqs[r].sent = 0

\* The floor of weight * 1.5 + size * 20 minutes for a file of the given size
\* in bytes, with weight the weight model in grams and size in MB: the floor
\* of (3 * WeightLaw + 40 * bytes) / (2 * MB).
TotalMinutesFloor(size) ==
    LET w == WeightLaw(size)
        d == 2 * MB
    IN  3 * (w \div d) + 40 * (size \div d)
            + (3 * (w % d) + 40 * (size % d)) \div d

\* C19: the print time the estimator returns reads "{h}h {m}m" with h the
\* floor of total / 60 and m the floor of total mod 60, for total =
\* max(30, weight * 1.5 + size * 20); so m is in 0..59, h * 60 + m is the
\* floor of total, and it is at least 30.
C19_PrintTime ==
    \A r \in Analyzed :
        LET t == TotalMinutesFloor(reqs[r].file.size)
            total == IF t >= 30 THEN t ELSE 30
            h == total \div 60
            m == total % 60
        IN  /\ reqs[r].body.printTime = ToString(h) \o "h " \o ToString(m) \o "m"
            /\ m \in 0..59
            /\ h * 60 + m = total
            /\ h * 60 + m >= 30

\* Print times were returned for the smallest file, which the floor of 30
\* minutes applies to, and for a file that prints for more than an hour.
C19_Witness ==
    /\ \E r \in Analyzed :
         reqs[r].file.size = 1 /\ reqs[r].body.printTime = "0h 30m"
    /\ \E r \in Analyzed : TotalMinutesFloor(reqs[r].file.size) > 60

\* C20: no step removes a stored identifier, and a step changes the record
\* under a stored identifier only if it is an updateOrder of that identifier;
\* getOrder returns the record under the identifier, getAllOrders the stored
\* records, a lookup answers with the record, and none of them changes the
\* store.  So two reads of an identifier return the same record unless an
\* updateOrder of it ran in between.
C20_StableReads ==
    [][/\ \A k \in DOMAIN orders :
            /\ k \in DOMAIN orders'
            /\ orders'[k] # orders[k] =>
                  /\ last'.n = last.n + 1
                  /\ last'.op = "updateOrder"
                  /\ last'.id = k
       /\ (last'.n = last.n + 1 /\ last'.op = "getOrder") =>
            /\ orders' = orders
            /\ last'.result =
                  (IF last'.id \in DOMAIN orders THEN orders[last'.id] ELSE NoOrder)
       /\ (last'.n = last.n + 1 /\ last'.op = "getAllOrders") =>
            /\ orders' = orders
            /\ last'.result = {orders[k] : k \in DOMAIN orders}
       /\ \A r \in Reqs :
            (reqs'[r] # reqs[r] /\ reqs'[r].route = "lookup") =>
                /\ orders' = orders
                /\ reqs'[r].param \in DOMAIN orders =>
                      reqs'[r].body = orders[reqs'[r].param]]_vars

\* A lookup was answered with the record of one identifier, which the
\* update of another has left as it was, and an analysis was answered.
C20_Witness ==
    /\ last.op = "updateOrder"
    /\ last.result # NoOrder
    /\ \E r \in Reqs :
         /\ reqs[r].pc = "done" /\ reqs[r].route = "lookup"
         /\ reqs[r].status = 200
         /\ reqs[r].param # last.id
         /\ reqs[r].body.status = "pending"
         /\ orders[last.id].status = "confirmed"
    /\ Analyzed # {}

\* C21 (as stated): an analysis on show is the analysis of the selected
\* file, and every order the form sent carried a file and was sent while the
\* analysis of that file was on show.
C21_AnalysisOfSelectedFile ==
    /\ form.modelAnalysis # NoAnalysis =>
         /\ form.selectedFile # NoFile
         /\ form.modelAnalysis = analyze3DModel(form.selectedFile)
    /\ \A j \in 1..Len(form.submits) :
         /\ form.submits[j].modelFile # NoFile
         /\ form.submits[j].shown = analyze3DModel(form.submits[j].modelFile)

====
